---- MODULE Spec2Model ----
(***************************************************************************)
(* A model of the GNS3 GUI glue code: gns3/controller.py (Controller: the  *)
(* static-asset cache, the connection slots, the project map),             *)
(* gns3/link.py (Link), gns3/project.py (Project: settings, dump, open),   *)
(* gns3/node.py (Node: the create callback, the port list) and             *)
(* gns3/appliance_manager.py (Appliance).  Every handler is one action;    *)
(* the HTTP client, the Qt timers and the file system are the environment. *)
(***************************************************************************)
EXTENDS Integers, Sequences, FiniteSets, Bags, TLC

VARIABLES
    \* ---- Controller fields (controller.py 43-56)
    _connected,                     \* self._connected
    _connecting,                    \* self._connecting
    _cache_directory,               \* self._cache_directory (tempfile.mkdtemp())
    _http_client,                   \* self._http_client: TRUE when a client is set, FALSE for None
    _first_error,                   \* self._first_error
    _error_dialog,                  \* self._error_dialog: TRUE when a QMessageBox is held
    _display_error,                 \* self._display_error
    _projects,                      \* self._projects: project_id -> project dict
    _static_asset_download_queue,   \* cache path -> list of (callback, fallback)
    \* ---- environment
    queries,        \* bag of HTTP queries handed to the HTTP client and not yet answered
    timers,         \* bag of pending QTimer.singleShot timers
    files,          \* the cache paths that exist on disk
    disk,           \* the .gns3 files under ~/GNS3/projects
    \* ---- Link objects (link.py)
    links,          \* Link._id -> the fields of that Link
    ports,          \* port -> the fields the link code sets on it
    node_links,     \* node -> the links the node lists (addLink / deleteLink)
    instance_count, \* Link._instance_count
    created,        \* observation: the endpoints each Link was constructed with
    \* ---- observation (not program state)
    calls,          \* the callbacks called so far by getStatic/_getStaticCallback, in order
    reg,            \* reg[cb]: the getStatic(url, callback, fallback) call that passed callback cb
    resub,          \* callbacks re-submitted through getStatic(fallback, callback)
    resubNoClient,  \* ... of which those re-submitted while no HTTP client was set
    dropped,        \* callbacks whose download failed and that had no fallback
    reported,       \* what the HTTP client reported last: "none", "connected", "disconnected"
    \* ---- one Project, one Node and one Appliance object (project.py, node.py,
    \* ---- appliance_manager.py), each with the part of the environment it touches
    Project,        \* the Project's fields, the files of its directory, the Topology calls
    Node,           \* the Node's fields, its port objects, its module, the signals emitted
    Appliance,      \* the caller's data map and the Appliance built from it
    last            \* the handler that ran last, its arguments and what it saw on entry

ctrlVars   == <<_connected, _connecting, _first_error, _error_dialog, _display_error>>
staticVars == <<_cache_directory, _static_asset_download_queue, files, calls, reg,
                resub, resubNoClient, dropped>>
projVars   == <<_projects, disk>>
linkVars   == <<links, ports, node_links, instance_count, created>>
objVars    == <<Project, Node, Appliance>>
vars == <<_connected, _connecting, _cache_directory, _http_client, _first_error,
          _error_dialog, _display_error, _projects, _static_asset_download_queue,
          queries, timers, files, disk, links, ports, node_links, instance_count, created,
          calls, reg, resub, resubNoClient, dropped, reported, Project, Node,
          Appliance, last>>

None == "None"
\* no fallback URL: None (or the empty string, false in Python alike)
NoFallback == <<>>

-----------------------------------------------------------------------------
(* Bounds of the model *)

\* number of getStatic calls made from outside the controller
MaxCalls == 2
\* number of GET /version queries and reconnect timers pending at once
MaxPending == 2
\* number of Link objects constructed
MaxLinks == 1
\* number of Link objects constructed where links are only created and deleted
MaxPairLinks == 2
\* number of entries of the "ports" list of a server answer
MaxPorts == 2
\* number of calls of the Project setters
MaxSets == 1

-----------------------------------------------------------------------------
(* URLs, and the cache path of a URL *)

\* A URL is a sequence of tokens; ".svg" is the token the code searches for.
Urls == { <<"/symbols/", "router", ".svg">>, <<"/static/", "logo">> }

TokenCode(t) ==
    CASE t = "/symbols/" -> 47
      [] t = "/static/"  -> 115
      [] t = "router"    -> 114
      [] t = "logo"      -> 108
      [] t = ".svg"      -> 118

\* hashlib.md5 of the URL: a digest of the URL's content, position by position
\* (16 bits are kept of it; the URLs of the model do not collide).
RECURSIVE Md5(_)
Md5(url) ==
    IF url = <<>> THEN 7
    ELSE (Md5(SubSeq(url, 1, Len(url) - 1)) * 31 + TokenCode(url[Len(url)])) % 65536

Extension(url) ==
    IF \E i \in DOMAIN url : url[i] = ".svg" THEN ".svg" ELSE ".png"

getStaticCachedPathPerClient(url) ==
    <<_cache_directory, _http_client, Md5(url), Extension(url)>>

getStaticCachedPath(url) ==
    <<_cache_directory, Md5(url), Extension(url)>>

-----------------------------------------------------------------------------
(* HTTP queries *)

StaticQuery(url, path) ==
    [method |-> "GET", path |-> url, callback |-> <<"_getStaticCallback", url, path>>]

VersionQuery(showProgress) ==
    [method |-> "GET", path |-> <<"/version">>, callback |-> <<"_versionGetSlot">>,
     showProgress |-> showProgress]

One(x) == SetToBag({x})

\* Controller.createHTTPQuery: forwarded to the HTTP client when there is one
createHTTPQuery(client, qs, q) == IF client THEN qs (+) One(q) ELSE qs

Pending(qs, path) ==
    LET hit == {q \in BagToSet(qs) :
                   q.callback[1] = "_getStaticCallback" /\ q.callback[3] = path}
        RECURSIVE Sum(_)
        Sum(s) == IF s = {} THEN 0
                  ELSE LET q == CHOOSE q \in s : TRUE IN CopiesIn(q, qs) + Sum(s \ {q})
    IN  Sum(hit)

-----------------------------------------------------------------------------
(* Controller.getStatic and Controller._getStaticCallback, as functions of  *)
(* the part of the state they read and write.                              *)

StaticState ==
    [client |-> _http_client, queue |-> _static_asset_download_queue, files |-> files,
     queries |-> queries, calls |-> calls, resub |-> resub,
     resubNoClient |-> resubNoClient, dropped |-> dropped]

Entry(cb, fallback) == [callback |-> cb, fallback |-> fallback]
Call(cb, path) == [callback |-> cb, path |-> path]

getStaticAlwaysQuery(S, url, cb, fallback) ==
    IF ~S.client THEN S
    ELSE LET path == getStaticCachedPath(url) IN
         IF path \in S.files
         THEN [S EXCEPT !.calls = Append(@, Call(cb, path))]
         ELSE [S EXCEPT
                 !.queue = [p \in DOMAIN S.queue \cup {path} |->
                              IF p = path /\ p \in DOMAIN S.queue
                                  THEN Append(S.queue[p], Entry(cb, fallback))
                              ELSE IF p = path THEN <<Entry(cb, fallback)>>
                              ELSE S.queue[p]],
                 !.queries = @ (+) One(StaticQuery(url, path))]

getStatic(S, url, cb, fallback) ==
    IF ~S.client THEN S
    ELSE LET path == getStaticCachedPath(url) IN
         IF path \in S.files
         THEN [S EXCEPT !.calls = Append(@, Call(cb, path))]
         ELSE IF path \in DOMAIN S.queue
         THEN [S EXCEPT !.queue[path] = Append(@, Entry(cb, fallback))]
         ELSE [S EXCEPT
                 !.queue = [p \in DOMAIN S.queue \cup {path} |->
                              IF p = path THEN <<Entry(cb, fallback)>> ELSE S.queue[p]],
                 !.queries = @ (+) One(StaticQuery(url, path))]

\* the error branch's loop over self._static_asset_download_queue[path]; getStatic may
\* append to the very list the loop walks, and a Python for loop visits what is appended
RECURSIVE FallbackLoop(_, _, _)
FallbackLoop(S, path, i) ==
    IF i > Len(S.queue[path]) THEN S
    ELSE LET e == S.queue[path][i]
             G == getStatic(S, e.fallback, e.callback, NoFallback)
             S1 == IF e.fallback # NoFallback
                   THEN [G EXCEPT !.resub = @ \cup {e.callback},
                                  !.resubNoClient = IF S.client THEN @
                                                    ELSE @ \cup {e.callback}]
                   ELSE [S EXCEPT !.dropped = @ \cup {e.callback}]
         IN  FallbackLoop(S1, path, i + 1)

\* the success branch's loop: callback(path) for every queued entry, in list order
RECURSIVE CallAll(_, _, _)
CallAll(cs, entries, path) ==
    IF entries = <<>> THEN cs
    ELSE CallAll(Append(cs, Call(Head(entries).callback, path)), Tail(entries), path)

RemoveKey(f, k) == [p \in DOMAIN f \ {k} |-> f[p]]

getStaticCallbackCallsOnError(S, url, path, outcome) ==
    IF path \notin DOMAIN S.queue THEN S
    ELSE IF outcome = "error"
    THEN [S EXCEPT !.calls = CallAll(@, S.queue[path], path),
                   !.queue = RemoveKey(@, path)]
    ELSE IF outcome = "OSError" THEN S
    ELSE [S EXCEPT !.files = @ \cup {path},
                   !.calls = CallAll(@, S.queue[path], path),
                   !.queue = RemoveKey(@, path)]

getStaticCallbackReversed(S, url, path, outcome) ==
    LET Rev(q) == [i \in DOMAIN q |-> q[Len(q) + 1 - i]] IN
    IF path \notin DOMAIN S.queue THEN S
    ELSE IF outcome = "error"
    THEN LET L == FallbackLoop(S, path, 1) IN [L EXCEPT !.queue = RemoveKey(@, path)]
    ELSE IF outcome = "OSError" THEN S
    ELSE [S EXCEPT !.files = @ \cup {path},
                   !.calls = CallAll(@, Rev(S.queue[path]), path),
                   !.queue = RemoveKey(@, path)]

\* outcome: "error" (error=True), "OSError" (the body cannot be written), "ok"
getStaticCallback(S, url, path, outcome) ==
    IF path \notin DOMAIN S.queue THEN S
    ELSE IF outcome = "error"
    THEN LET L == FallbackLoop(S, path, 1) IN [L EXCEPT !.queue = RemoveKey(@, path)]
    ELSE IF outcome = "OSError" THEN S
    ELSE [S EXCEPT !.files = @ \cup {path},
                   !.calls = CallAll(@, S.queue[path], path),
                   !.queue = RemoveKey(@, path)]

SetStatic(S) ==
    /\ _static_asset_download_queue' = S.queue
    /\ files' = S.files
    /\ queries' = S.queries
    /\ calls' = S.calls
    /\ resub' = S.resub
    /\ resubNoClient' = S.resubNoClient
    /\ dropped' = S.dropped

-----------------------------------------------------------------------------
(* Actions of the static-asset cache *)

PendingVersion == BagCardinality(queries) + BagCardinality(timers)
                    - Cardinality({q \in BagToSet(queries) : q.path \in Urls})

\* Controller._connectingToServer, as the new values of what it writes
connectingToServer(client, qs) ==
    [connected |-> TRUE, connecting |-> TRUE,
     queries |-> createHTTPQuery(client, qs, VersionQuery("default"))]

\* Controller.setHttpClient(http_client)
SetHttpClient(c) ==
    /\ c => PendingVersion < MaxPending
    /\ _http_client' = c
    /\ IF c THEN LET r == connectingToServer(c, queries) IN
                 /\ _connected' = r.connected
                 /\ _connecting' = r.connecting
                 /\ queries' = r.queries
            ELSE UNCHANGED <<_connected, _connecting, queries>>
    /\ last' = [op |-> "setHttpClient", http_client |-> c]
    /\ UNCHANGED <<_first_error, _error_dialog, _display_error, timers, reported>>
    /\ UNCHANGED <<staticVars, projVars, linkVars, objVars>>

\* Controller.getStatic(url, callback, fallback), called from outside the controller
\* with a callback of its own
GetStatic(url, fallback) ==
    /\ Len(reg) < MaxCalls
    /\ LET cb == Len(reg) + 1 IN
       /\ SetStatic(getStatic(StaticState, url, cb, fallback))
       /\ reg' = Append(reg, [url |-> url, fallback |-> fallback, client |-> _http_client,
                              path |-> getStaticCachedPath(url)])
       /\ last' = [op |-> "getStatic", url |-> url, callback |-> cb, fallback |-> fallback,
                   path |-> getStaticCachedPath(url), pre |-> StaticState]
    /\ UNCHANGED <<_cache_directory, _http_client, ctrlVars, timers, reported>>
    /\ UNCHANGED <<projVars, linkVars, objVars>>

\* the HTTP client answers a GET of a static asset: Controller._getStaticCallback
GetStaticResponse(q, outcome) ==
    /\ q \in BagToSet(queries)
    /\ q.callback[1] = "_getStaticCallback"
    /\ LET S == [StaticState EXCEPT !.queries = @ (-) One(q)] IN
       /\ SetStatic(getStaticCallback(S, q.callback[2], q.callback[3], outcome))
       /\ last' = [op |-> "_getStaticCallback", url |-> q.callback[2],
                   path |-> q.callback[3], outcome |-> outcome, pre |-> S]
    /\ UNCHANGED <<_cache_directory, _http_client, ctrlVars, timers, reported, reg>>
    /\ UNCHANGED <<projVars, linkVars, objVars>>

-----------------------------------------------------------------------------
(* The project map: Controller.add_project, create_project, load_project,   *)
(* load_projects, deleteProject.  A project is a dict, here a record.       *)

ProjectIds == {None, "p1", "p2"}
ProjectNames == {None, "lab", "demo"}
\* os.path.expanduser("~/GNS3/projects")
ProjectsPath == <<"~", "GNS3", "projects">>
\* the keyword arguments a caller passes on top of project_id and name
Kwargs == { [status |-> "opened"],
            [status |-> "closed", path |-> <<"elsewhere">>, filename |-> "x.gns3"] }
\* the .gns3 files the projects directory may hold, as load_topology parses them
DiskFiles == { [project_id |-> "p1", name |-> "lab", dir |-> <<"~", "GNS3", "projects", "lab">>,
                filename |-> "lab.gns3"],
               [project_id |-> "p2", name |-> "demo", dir |-> <<"~", "GNS3", "projects", "demo">>,
                filename |-> "demo.gns3"] }

\* a call's outcome: the map after it, what it returned (<<>> when it raised), the
\* exception it raised and the signals it emitted
Outcome(P, ret, raised, signals) ==
    [projects |-> P, ret |-> ret, raised |-> raised, signals |-> signals]

Store(P, project_id, project) ==
    [k \in DOMAIN P \cup {project_id} |-> IF k = project_id THEN project ELSE P[k]]

\* os.path.join(projects_path, name) raises TypeError when name is None
add_project(P, project_id, name, kwargs) ==
    IF project_id \notin DOMAIN P
    THEN IF name = None
         THEN Outcome(P, <<>>, "TypeError", <<>>)
         ELSE LET project == kwargs @@ [id |-> project_id, name |-> name,
                                        path |-> Append(ProjectsPath, name)]
              IN  Outcome(Store(P, project_id, project), <<project>>, None, <<>>)
    ELSE Outcome(P, <<P[project_id]>>, None, <<>>)

create_project(P, name, project_id, path) ==
    IF project_id # None /\ project_id \in DOMAIN P
    THEN Outcome(P, <<P[project_id]>>, None, <<>>)
    ELSE LET project == [name |-> name, id |-> project_id, path |-> path]
         IN  Outcome(Store(P, project_id, project), <<project>>, None,
                     <<"project_list_updated_signal">>)

\* load_project(path, load=False) of a file the directory listing found
load_project(P, file) ==
    IF file.project_id \in DOMAIN P
    THEN Outcome(P, <<P[file.project_id]>>, None, <<>>)
    ELSE add_project(P, file.project_id, file.name,
                     [path |-> file.dir, status |-> "closed", filename |-> file.filename])

\* load_projects: every .gns3 file of every project directory, then the signal
RECURSIVE load_projects(_, _)
load_projects(P, D) ==
    IF D = {} THEN Outcome(P, <<>>, None, <<"project_list_updated_signal">>)
    ELSE LET file == CHOOSE f \in D : TRUE
         IN  load_projects(load_project(P, file).projects, D \ {file})

\* deleteProject: self._projects[project_id] is a dict, and a dict has no attribute
\* name; an unknown id raises KeyError before that
deleteProject(P, project_id) ==
    IF project_id \notin DOMAIN P THEN Outcome(P, <<>>, "KeyError", <<>>)
    ELSE Outcome(P, <<>>, "AttributeError", <<>>)

ProjectCall(op, args, r) ==
    /\ _projects' = r.projects
    /\ last' = [op |-> op, args |-> args, ret |-> r.ret, raised |-> r.raised,
                signals |-> r.signals, pre |-> [projects |-> _projects]]
    /\ UNCHANGED <<disk, _http_client, ctrlVars, queries, timers, reported>>
    /\ UNCHANGED <<staticVars, linkVars, objVars>>

AddProject(project_id, name, kwargs) ==
    ProjectCall("add_project", [project_id |-> project_id, name |-> name],
                add_project(_projects, project_id, name, kwargs))

CreateProject(name, project_id, path) ==
    ProjectCall("create_project", [project_id |-> project_id, name |-> name],
                create_project(_projects, name, project_id, path))

DeleteProject(project_id) ==
    ProjectCall("deleteProject", [project_id |-> project_id],
                deleteProject(_projects, project_id))

RefreshProjectList ==
    ProjectCall("refreshProjectList", [project_id |-> None], load_projects(_projects, disk))

-----------------------------------------------------------------------------
(* The connection slots: _versionGetSlot, the reconnect timer,              *)
(* _httpClientDisconnectedSlot, _httpClientConnectedSlot, setDisplayError   *)

\* the delay of QTimer.singleShot in _versionGetSlot, in ms
ReconnectDelay == 5000

Timer(delay, showProgress) == [delay |-> delay, query |-> VersionQuery(showProgress)]
BoolStr(b) == IF b THEN "True" ELSE "False"

\* what _versionGetSlot reads and writes, besides the query it answers
VersionState ==
    [connecting |-> _connecting, first_error |-> _first_error,
     error_dialog |-> _error_dialog, display_error |-> _display_error,
     timers |-> timers, signals |-> <<>>]

versionGetSlotFirstErrorOnly(V, error, hasMessage) ==
    IF error
    THEN IF V.first_error
         THEN [V EXCEPT !.connecting = FALSE,
                        !.signals = <<"connection_failed_signal">>,
                        !.error_dialog = IF hasMessage /\ V.display_error THEN TRUE ELSE @,
                        !.timers = @ (+) One(Timer(ReconnectDelay, BoolStr(V.first_error))),
                        !.first_error = FALSE]
         ELSE V
    ELSE [V EXCEPT !.first_error = TRUE, !.error_dialog = FALSE]

\* _versionGetSlot(result, error): hasMessage is "message" in result
versionGetSlot(V, error, hasMessage) ==
    IF error
    THEN LET W == IF V.first_error
                  THEN [V EXCEPT !.connecting = FALSE,
                                 !.signals = <<"connection_failed_signal">>,
                                 !.error_dialog =
                                     IF hasMessage /\ V.display_error THEN TRUE ELSE @]
                  ELSE V
         IN  [W EXCEPT !.timers = @ (+) One(Timer(ReconnectDelay, BoolStr(V.first_error))),
                       !.first_error = FALSE]
    ELSE [V EXCEPT !.first_error = TRUE, !.error_dialog = FALSE]

\* the HTTP client answers a GET /version: Controller._versionGetSlot
VersionGetSlot(q, error, hasMessage) ==
    /\ q \in BagToSet(queries)
    /\ q.callback[1] = "_versionGetSlot"
    /\ queries' = queries (-) One(q)
    /\ LET V == versionGetSlot(VersionState, error, hasMessage) IN
       /\ _connecting' = V.connecting
       /\ _first_error' = V.first_error
       /\ _error_dialog' = V.error_dialog
       /\ timers' = V.timers
       /\ last' = [op |-> "_versionGetSlot", error |-> error, signals |-> V.signals,
                   pre |-> VersionState]
    /\ UNCHANGED <<_connected, _display_error, _http_client, reported>>
    /\ UNCHANGED <<staticVars, projVars, linkVars, objVars>>

\* a reconnect timer fires: self.get('/version', self._versionGetSlot, showProgress=...)
TimerFires(t) ==
    /\ t \in BagToSet(timers)
    /\ timers' = timers (-) One(t)
    /\ queries' = createHTTPQuery(_http_client, queries, t.query)
    /\ last' = [op |-> "timer", delay |-> t.delay, query |-> t.query,
                pre |-> [client |-> _http_client, queries |-> queries]]
    /\ UNCHANGED <<_http_client, ctrlVars, reported>>
    /\ UNCHANGED <<staticVars, projVars, linkVars, objVars>>

\* Controller.setDisplayError(val)
SetDisplayError(val) ==
    /\ _display_error' = val
    /\ _first_error' = TRUE
    /\ last' = [op |-> "setDisplayError", val |-> val]
    /\ UNCHANGED <<_connected, _connecting, _error_dialog, _http_client, queries, timers,
                   reported>>
    /\ UNCHANGED <<staticVars, projVars, linkVars, objVars>>

\* the HTTP client emits connection_disconnected_signal: _httpClientDisconnectedSlot
HttpClientDisconnectedSlot ==
    /\ _http_client
    /\ PendingVersion < MaxPending
    /\ reported' = "disconnected"
    /\ IF _connected
       THEN LET r == connectingToServer(_http_client, queries) IN
            /\ _connected' = r.connected
            /\ _connecting' = r.connecting
            /\ queries' = r.queries
            /\ last' = [op |-> "_httpClientDisconnectedSlot",
                        signals |-> <<"disconnected_signal">>,
                        pre |-> [connected |-> _connected, reported |-> reported]]
       ELSE /\ UNCHANGED <<_connected, _connecting, queries>>
            /\ last' = [op |-> "_httpClientDisconnectedSlot", signals |-> <<>>,
                        pre |-> [connected |-> _connected, reported |-> reported]]
    /\ UNCHANGED <<_first_error, _error_dialog, _display_error, _http_client, timers>>
    /\ UNCHANGED <<staticVars, projVars, linkVars, objVars>>

\* the HTTP client emits connection_connected_signal: _httpClientConnectedSlot
HttpClientConnectedSlot ==
    /\ _http_client
    /\ reported' = "connected"
    /\ IF ~_connected
       THEN LET r == load_projects(_projects, disk) IN
            /\ _connected' = TRUE
            /\ _connecting' = FALSE
            /\ _projects' = r.projects
            /\ last' = [op |-> "_httpClientConnectedSlot",
                        signals |-> <<"connected_signal">> \o r.signals,
                        refreshed |-> TRUE,
                        pre |-> [connected |-> _connected, reported |-> reported]]
       ELSE /\ UNCHANGED <<_connected, _connecting, _projects>>
            /\ last' = [op |-> "_httpClientConnectedSlot", signals |-> <<>>,
                        refreshed |-> FALSE,
                        pre |-> [connected |-> _connected, reported |-> reported]]
    /\ UNCHANGED <<_first_error, _error_dialog, _display_error, _http_client, queries,
                   timers, disk>>
    /\ UNCHANGED <<staticVars, linkVars, objVars>>

-----------------------------------------------------------------------------
(* Links: gns3/link.py.  Nodes and ports are the objects a Link is given;   *)
(* a port is named by its node, adapter number and port number.             *)

Nodes == {"R1", "R2"}
Ports == {<<n, a, 0>> : n \in Nodes, a \in {0, 1}}
PortNode(port) == port[1]
adapterNumber(port) == port[2]
portNumber(port) == port[3]
\* Node.node_id() (a uuid string) and BaseNode.id() (an integer)
node_id(n) == <<"uuid", n>>
id(n) == IF n = "R1" THEN 1 ELSE 2
\* Port.label(): the ports of adapter 0 carry a label item, the others none
PortLabel(port) == IF adapterNumber(port) = 0 THEN <<"label", port>> ELSE <<>>

NoId == <<>>
NoLink == 0
FreePort == [link_id |-> NoLink, link |-> NoLink, destination_node |-> None,
             destination_port |-> <<>>]

\* Port.setLinkId, setLink, setDestinationNode, setDestinationPort
PortSetLink(PS, port, l, dnode, dport) ==
    [PS EXCEPT ![port] = [link_id |-> l, link |-> l, destination_node |-> dnode,
                          destination_port |-> dport]]
\* Port.setFree
PortSetFree(PS, port) == [PS EXCEPT ![port] = FreePort]
\* BaseNode.addLink, BaseNode.deleteLink
NodeAddLink(NL, n, l) == [NL EXCEPT ![n] = @ \cup {l}]
NodeDeleteLink(NL, n, l) == [NL EXCEPT ![n] = @ \ {l}]

\* the entry of a server answer's "nodes" list for a port
NodeEntry(port) ==
    [node_id |-> node_id(PortNode(port)), adapter_number |-> adapterNumber(port),
     port_number |-> portNumber(port)]

\* the answers (and link_data) the model feeds the link with: any of the keys nodes,
\* filters and suspend may be missing, and "nodes" is whatever the server sent
Results ==
    { [message |-> "x"],
      [nodes |-> <<NodeEntry(<<"R2", 1, 0>>), NodeEntry(<<"R1", 0, 0>>),
                   NodeEntry(<<"R1", 1, 0>>)>>],
      [filters |-> {"delay"}, suspend |-> TRUE],
      [nodes |-> <<>>, filters |-> {}, suspend |-> FALSE] }

\* signals: the signals emitted so far by the running handler; seen: what a slot
\* connected to each of them finds the ports and the nodes' link lists to be
LinkState ==
    [links |-> links, ports |-> ports, node_links |-> node_links, signals |-> <<>>,
     seen |-> <<>>]

Emit(X, signal) ==
    [X EXCEPT !.signals = Append(@, signal),
              !.seen = Append(@, [ports |-> X.ports, node_links |-> X.node_links])]

\* Link._parseResponse
parseResponse(X, l, result) ==
    Emit([X EXCEPT !.links[l] =
            [@ EXCEPT !.nodes = IF "nodes" \in DOMAIN result THEN result.nodes ELSE @,
                      !.filters = IF "filters" \in DOMAIN result THEN result.filters ELSE @,
                      !.suspend = IF "suspend" \in DOMAIN result THEN result.suspend ELSE @]],
         <<"updated_link_signal", l>>)

linkDeletedCallbackSignalsFirst(X, l, error) ==
    IF error THEN X
    ELSE LET L == X.links[l]
             A == Emit(X, <<"updated_signal", L.source_node>>)
             B == [A EXCEPT !.ports = PortSetFree(@, L.source_port),
                            !.node_links = NodeDeleteLink(@, L.source_node, l)]
             C == [B EXCEPT !.ports = PortSetFree(@, L.destination_port),
                            !.node_links = NodeDeleteLink(@, L.destination_node, l)]
             D == Emit(C, <<"updated_signal", L.destination_node>>)
         IN  Emit(D, <<"delete_link_signal", l>>)

linkDeletedCallbackUnbinds(X, l, error) ==
    IF error THEN X
    ELSE LET L == X.links[l]
             A == [X EXCEPT !.ports = PortSetFree(@, L.source_port),
                            !.node_links = NodeDeleteLink(@, L.source_node, l)]
             B == Emit(A, <<"updated_signal", L.source_node>>)
             C == [B EXCEPT !.ports = PortSetFree(@, L.destination_port),
                            !.node_links = NodeDeleteLink(@, L.destination_node, l),
                            !.links[l].source_port = <<>>,
                            !.links[l].destination_port = <<>>]
             D == Emit(C, <<"updated_signal", L.destination_node>>)
         IN  Emit(D, <<"delete_link_signal", l>>)

\* Link._linkDeletedCallback
linkDeletedCallback(X, l, error) ==
    IF error THEN X
    ELSE LET L == X.links[l]
             A == [X EXCEPT !.ports = PortSetFree(@, L.source_port),
                            !.node_links = NodeDeleteLink(@, L.source_node, l)]
             B == Emit(A, <<"updated_signal", L.source_node>>)
             C == [B EXCEPT !.ports = PortSetFree(@, L.destination_port),
                            !.node_links = NodeDeleteLink(@, L.destination_node, l)]
             D == Emit(C, <<"updated_signal", L.destination_node>>)
         IN  Emit(D, <<"delete_link_signal", l>>)

\* Link.deleteLink: always through _linkDeletedCallback({})
deleteLink(X, l) == linkDeletedCallback(X, l, FALSE)

linkCreatedCallbackOneSided(X, l, result, error) ==
    IF error THEN deleteLink(X, l)
    ELSE LET L == X.links[l]
             A == Emit([X EXCEPT !.links[l].initialized = TRUE], <<"add_link_signal", l>>)
             B == [A EXCEPT
                     !.ports = PortSetLink(
                                  PortSetLink(@, L.source_port, l, L.destination_node,
                                              L.destination_port),
                                  L.destination_port, l, L.destination_node,
                                  L.destination_port),
                     !.links[l].link_id = result.link_id]
         IN  parseResponse(B, l, result)

\* Link._linkCreatedCallback
linkCreatedCallback(X, l, result, error) ==
    IF error THEN deleteLink(X, l)
    ELSE LET L == X.links[l]
             A == Emit([X EXCEPT !.links[l].initialized = TRUE], <<"add_link_signal", l>>)
             B == [A EXCEPT
                     !.ports = PortSetLink(
                                  PortSetLink(@, L.source_port, l, L.destination_node,
                                              L.destination_port),
                                  L.destination_port, l, L.source_node, L.source_port),
                     !.links[l].link_id = result.link_id]
         IN  parseResponse(B, l, result)

\* Link.__init__(source_node, source_port, destination_node, destination_port,
\* link_id, **link_data) of the Link whose _id is l
NewLinkObject(X, l, sn, sp, dn, dp, link_id, link_data) ==
    LET lid == IF link_id # NoId THEN <<"uuid4", l>> ELSE link_id
        L == [source_node |-> sn, source_port |-> sp, destination_node |-> dn,
              destination_port |-> dp, link_id |-> lid, initialized |-> TRUE,
              filters |-> {}, suspend |-> FALSE, nodes |-> <<>>]
        A == [X EXCEPT !.links = [k \in DOMAIN X.links \cup {l} |->
                                    IF k = l THEN L ELSE X.links[k]],
                       !.node_links = NodeAddLink(NodeAddLink(@, sn, l), dn, l)]
        data == [k \in DOMAIN link_data \cup {"link_id"} |->
                   IF k = "link_id" THEN lid ELSE link_data[k]]
    IN  linkCreatedCallback(A, l, data, FALSE)

\* Link._prepareParams: the label of a port that has one is added to its entry
prepareParams(L) ==
    LET entry(n, port) ==
           LET e == [node_id |-> node_id(n), adapter_number |-> adapterNumber(port),
                     port_number |-> portNumber(port)]
           IN  IF PortLabel(port) # <<>> THEN e @@ [label |-> PortLabel(port)] ELSE e
    IN  [nodes |-> <<entry(L.source_node, L.source_port),
                     entry(L.destination_node, L.destination_port)>>,
         filters |-> L.filters, suspend |-> L.suspend]

\* Link.__json__
json(L) ==
    [link_id |-> L.link_id,
     nodes |-> << [node_id |-> id(L.source_node),
                   adapter_number |-> adapterNumber(L.source_port),
                   port_number |-> portNumber(L.source_port)],
                  [node_id |-> id(L.destination_node),
                   adapter_number |-> adapterNumber(L.destination_port),
                   port_number |-> portNumber(L.destination_port)] >>]

Endpoints(L) == <<L.source_node, L.source_port, L.destination_node, L.destination_port>>

LinkCall(op, l, X) ==
    /\ links' = X.links
    /\ ports' = X.ports
    /\ node_links' = X.node_links
    /\ last' = [op |-> op, link |-> l, signals |-> X.signals, seen |-> X.seen]
    /\ UNCHANGED <<_http_client, ctrlVars, queries, timers, reported>>
    /\ UNCHANGED <<staticVars, projVars, objVars>>

\* a Link is constructed between two free ports of two different nodes, the max-th
\* Link at most
NewLinkUpTo(max, sp, dp, link_id, link_data) ==
    /\ instance_count <= max
    /\ PortNode(sp) # PortNode(dp)
    /\ ports[sp] = FreePort /\ ports[dp] = FreePort
    /\ instance_count' = instance_count + 1
    /\ created' = [k \in DOMAIN created \cup {instance_count} |->
                     IF k = instance_count THEN <<PortNode(sp), sp, PortNode(dp), dp>>
                     ELSE created[k]]
    /\ LinkCall("__init__", instance_count,
                NewLinkObject(LinkState, instance_count, PortNode(sp), sp, PortNode(dp), dp,
                              link_id, link_data))

Live == {l \in DOMAIN links : l \in node_links[links[l].source_node]}

\* Link.updateLinkCallback(result, error): an error is only shown in a message box
UpdateLinkCallback(l, result, error) ==
    /\ l \in Live
    /\ error <=> "message" \in DOMAIN result
    /\ LinkCall("updateLinkCallback", l,
                IF error THEN LinkState ELSE parseResponse(LinkState, l, result))
    /\ UNCHANGED <<instance_count, created>>

\* Link.toggleSuspend: self.update() is no method of Link nor of QObject, so the call
\* raises AttributeError once the flag is flipped
ToggleSuspend(l) ==
    /\ l \in Live
    /\ LinkCall("toggleSuspend", l, [LinkState EXCEPT !.links[l].suspend = ~@])
    /\ UNCHANGED <<instance_count, created>>

\* Link.setFilters(filters)
SetFilters(l, filters) ==
    /\ l \in Live
    /\ LinkCall("setFilters", l, [LinkState EXCEPT !.links[l].filters = filters])
    /\ UNCHANGED <<instance_count, created>>

NewLink(sp, dp, link_id, link_data) == NewLinkUpTo(MaxLinks, sp, dp, link_id, link_data)

\* Link.deleteLink()
DeleteLink(l) ==
    /\ l \in Live
    /\ LinkCall("deleteLink", l, deleteLink(LinkState, l))
    /\ UNCHANGED <<instance_count, created>>

\* Link._linkDeletedCallback(result, error=True): the callback is handed an error
LinkDeletedCallbackError(l) ==
    /\ l \in Live
    /\ LET X == linkDeletedCallback(LinkState, l, TRUE)
       IN  /\ links' = X.links
           /\ ports' = X.ports
           /\ node_links' = X.node_links
           /\ last' = [op |-> "_linkDeletedCallback", link |-> l, signals |-> X.signals,
                       seen |-> X.seen,
                       pre |-> [ports |-> ports, node_links |-> node_links]]
    /\ UNCHANGED <<instance_count, created>>
    /\ UNCHANGED <<_http_client, ctrlVars, queries, timers, reported>>
    /\ UNCHANGED <<staticVars, projVars, objVars>>

-----------------------------------------------------------------------------
(* Project: gns3/project.py.  Project.attrs is the instance dictionary of   *)
(* the Project object (attribute name -> value), Project.fs the two files   *)
(* of the project directory that dump() and open() touch, Project.scene     *)
(* what Topology.instance() holds.                                          *)

\* JSON null / Python None where a value is expected; a value v is written <<v>>
Null == <<>>
Some(v) == <<v>>

\* keys_to_load of Project.open, in its order
keys_to_load ==
    <<"auto_start", "auto_close", "auto_open", "scene_height", "scene_width", "zoom",
      "show_layers", "snap_to_grid", "show_grid", "show_interface_labels">>
MetaKeys == {keys_to_load[i] : i \in DOMAIN keys_to_load}

\* the private field that Project.__init__, the setters, the accessors and
\* project_to_topology use for a key
Field(key) == "_" \o key

\* Project.__init__: the fields as set from the default graphic settings
InitAttrs ==
    [f \in {Field(k) : k \in MetaKeys} |->
        CASE f = "_scene_width" -> Some(2000)
          [] f = "_scene_height" -> Some(1000)
          [] f = "_zoom" -> Null
          [] OTHER -> Some(FALSE)]

\* the values the setters are called with
MetaValues(key) ==
    CASE key \in {"scene_width", "scene_height"} -> {Some(2000), Some(3000)}
      [] key = "zoom" -> {Null, Some(80)}
      [] OTHER -> {Some(FALSE), Some(TRUE)}

\* setAutoStart, setAutoOpen, setAutoClose, setSceneWidth, setSceneHeight, setZoom,
\* setShowLayers, setSnapToGrid, setShowGrid, setShowInterfaceLabels
setMeta(attrs, key, val) == [attrs EXCEPT ![Field(key)] = val]

\* autoStart(), autoOpen(), autoClose(), sceneWidth(), sceneHeight(), showLayers(),
\* snapToGrid(), showGrid(), showInterfaceLabels() return the private field.  zoom()
\* is looked up on the object first: once open() has stored an attribute named zoom
\* the name no longer denotes the method, and calling the stored number raises
accessor(attrs, key) ==
    IF key = "zoom" /\ "zoom" \in DOMAIN attrs THEN <<"raises", "TypeError">>
    ELSE attrs[Field(key)]

\* Project.path()
projectPath(P) ==
    IF P._files_dir = None THEN None
    ELSE IF P._filename = None THEN "TypeError"
    ELSE "dir/p.gns3"

EmptyScene == [computes |-> <<>>, nodes |-> <<>>, links |-> <<>>, drawings |-> <<>>]

\* Project.project_to_topology: the part of the dictionary that open() reads back
project_to_topology(P) ==
    [meta |-> [k \in MetaKeys |-> P.attrs[Field(k)]],
     topology |-> [P.scene EXCEPT !.computes = <<>>]]

NoFile == [exists |-> FALSE]
\* a file holding the JSON text of data, or only the beginning of that text
File(data, complete) == [exists |-> TRUE, complete |-> complete, data |-> data]

\* dict.get(key, default) on a JSON object
Get(d, key, default) == IF key \in DOMAIN d THEN d[key] ELSE default

\* the file that dump() writes the JSON text to (mutation: the topology file itself)
dumpTargetInPlace(pth) == pth
dumpTarget(pth) == pth \o ".tmp"

\* shutil.move(src, dst) inside one directory: a rename
move(fs, src, dst) ==
    IF src = dst THEN fs
    ELSE [fs EXCEPT ![dst] = fs[src], ![src] = NoFile]

\* the Topology calls of Project.open for the "topology" object of the file
TopologyCalls(topology) ==
    LET nodes == Get(topology, "nodes", <<>>)
        withId == SelectSeq(Get(topology, "links", <<>>), LAMBDA e : "link_id" \in DOMAIN e)
        drawings == Get(topology, "drawings", <<>>)
    IN  [i \in DOMAIN nodes |-> <<"createNode", nodes[i]>>]
        \o [i \in DOMAIN withId |-> <<"createLink", withId[i]>>]
        \o [i \in DOMAIN drawings |-> <<"createDrawing", drawings[i]>>]

\* what the Topology holds once the calls are made
SceneAfter(scene, tcalls) ==
    LET of(kind) == SelectSeq(tcalls, LAMBDA c : c[1] = kind)
        args(cs) == [i \in DOMAIN cs |-> cs[i][2]]
    IN  [scene EXCEPT !.nodes = @ \o args(of("createNode")),
                      !.links = @ \o args(of("createLink")),
                      !.drawings = @ \o args(of("createDrawing"))]

\* Project.load_topology: the parsed file, or the exception it raises
load_topology(P) ==
    IF projectPath(P) \in {None, "TypeError"} THEN [raised |-> "TypeError"]
    ELSE LET f == P.fs[projectPath(P)]
         IN  IF f.exists /\ f.complete THEN [raised |-> None, data |-> f.data]
             ELSE [raised |-> "Exception"]

\* Project.open: the object afterwards, the exception raised (None: it returned) and
\* the Topology calls made
open(P) ==
    LET opening == [k \in DOMAIN P.attrs \cup {"_status", "_loading"} |->
                      CASE k = "_status" -> Some("opened")
                        [] k = "_loading" -> Some(TRUE)
                        [] OTHER -> P.attrs[k]]
        P1 == [P EXCEPT !.attrs = opening]
        loaded == load_topology(P1)
    IN  IF loaded.raised # None
        THEN [project |-> P1, raised |-> loaded.raised, tcalls |-> <<>>]
        ELSE LET project_data == loaded.data.meta
                 stored == {k \in MetaKeys : Get(project_data, k, Null) # Null}
                 \* setattr(self, key, val)
                 P2 == [P1 EXCEPT !.attrs = [k \in DOMAIN opening \cup stored |->
                                               IF k \in stored THEN project_data[k]
                                               ELSE opening[k]]]
                 topology == loaded.data.topology
             IN  IF Get(topology, "computes", <<>>) # <<>>
                 \* self.controller: a Project has no attribute of that name
                 THEN [project |-> P2, raised |-> "AttributeError", tcalls |-> <<>>]
                 ELSE [project |-> [P2 EXCEPT !.scene = SceneAfter(@, TopologyCalls(topology))],
                       raised |-> None, tcalls |-> TopologyCalls(topology)]

\* the topology files a project directory may hold when the program starts
Topologies ==
    { EmptyScene,
      [nodes |-> << [node_id |-> "N1"], [node_id |-> "N2"] >>,
       links |-> << [link_id |-> "L1", filters |-> {}], [filters |-> {}],
                    [link_id |-> "L2", filters |-> {}] >>,
       drawings |-> << [drawing_id |-> "D1"], [drawing_id |-> "D2"] >>],
      [computes |-> << [compute_id |-> "remote1"] >>,
       nodes |-> << [node_id |-> "N1"] >>,
       links |-> << [link_id |-> "L1", filters |-> {}] >>,
       drawings |-> <<>>] }
Metas ==
    { [k \in MetaKeys |-> CASE k = "zoom" -> Some(80)
                            [] k \in {"scene_width", "scene_height"} -> Some(3000)
                            [] OTHER -> Some(TRUE)],
      [auto_start |-> Some(TRUE), zoom |-> Null, show_grid |-> Some(FALSE)] }
TopologyFiles == {File([meta |-> m, topology |-> t], TRUE) : m \in Metas, t \in Topologies}

\* Project.__init__ in a directory that holds the file f or no file
NewProject(f) ==
    [attrs |-> InitAttrs, _files_dir |-> None, _filename |-> None,
     fs |-> [pth \in {"dir/p.gns3", dumpTarget("dir/p.gns3")} |->
               IF pth = "dir/p.gns3" THEN f ELSE NoFile],
     scene |-> EmptyScene, pc |-> [at |-> "idle"], sets |-> 0]

ProjectDoes(P, l) ==
    /\ Project' = P
    /\ last' = l
    /\ UNCHANGED <<_http_client, ctrlVars, queries, timers, reported>>
    /\ UNCHANGED <<staticVars, projVars, linkVars, Node, Appliance>>

Idle == Project.pc.at = "idle"

\* Project.setFilesDir(files_dir)
SetFilesDir(files_dir) ==
    /\ Idle
    /\ ProjectDoes([Project EXCEPT !._files_dir = files_dir], [op |-> "setFilesDir"])

\* Project.setFilename(name)
SetFilename(name) ==
    /\ Idle
    /\ ProjectDoes([Project EXCEPT !._filename = name], [op |-> "setFilename"])

\* one of the ten setters
SetMeta(key, val) ==
    /\ Idle
    /\ Project.sets < MaxSets
    /\ ProjectDoes([Project EXCEPT !.attrs = setMeta(@, key, val), !.sets = @ + 1],
                   [op |-> "set", key |-> key])

\* Project.open(), into a Topology that holds nothing yet
Open ==
    /\ Idle
    /\ Project.scene = EmptyScene
    /\ LET r == open(Project)
       IN  ProjectDoes(r.project, [op |-> "open", raised |-> r.raised, tcalls |-> r.tcalls,
                                   pre |-> Project.attrs])

\* Project.dump(), one step of it at a time.  The steps are those between which the
\* files of the directory can be seen from outside; nothing else runs in between.
DumpReturns(P, oserror) ==
    ProjectDoes([P EXCEPT !.pc = [at |-> "idle"]],
                [op |-> "dump", done |-> TRUE, raised |-> None, oserror |-> oserror,
                 before |-> Project.pc.before, topo |-> Project.pc.topo])

DumpStep(P, at) ==
    ProjectDoes([P EXCEPT !.pc.at = at], [op |-> "dump", done |-> FALSE])

\* topo = self.project_to_topology(); path = self.path(); os.path.dirname(path) raises
\* TypeError when the path is None, and so does path() when only the file name is
Dump ==
    /\ Idle
    /\ IF projectPath(Project) \in {None, "TypeError"}
       THEN ProjectDoes(Project, [op |-> "dump", done |-> TRUE, raised |-> "TypeError",
                                  oserror |-> FALSE])
       ELSE ProjectDoes([Project EXCEPT !.pc = [at |-> "makedirs",
                                                topo |-> project_to_topology(Project),
                                                path |-> projectPath(Project),
                                                before |-> Project.fs[projectPath(Project)]]],
                        [op |-> "dump", done |-> FALSE])

\* os.makedirs(os.path.dirname(self.path()), exist_ok=True)
DumpMakedirs(ok) ==
    /\ Project.pc.at = "makedirs"
    /\ IF ok THEN DumpStep(Project, "open") ELSE DumpReturns(Project, TRUE)

\* open(path + ".tmp", "w+"): the file is created, or emptied
DumpOpenTmp(ok) ==
    /\ Project.pc.at = "open"
    /\ IF ok
       THEN DumpStep([Project EXCEPT !.fs[dumpTarget(Project.pc.path)] =
                                        File(Project.pc.topo, FALSE)], "write")
       ELSE DumpReturns(Project, TRUE)

\* json.dump(topo, f) and the close of the file
DumpWrite(ok) ==
    /\ Project.pc.at = "write"
    /\ IF ok
       THEN DumpStep([Project EXCEPT !.fs[dumpTarget(Project.pc.path)] =
                                        File(Project.pc.topo, TRUE)], "move")
       ELSE DumpReturns(Project, TRUE)

\* shutil.move(path + ".tmp", path)
DumpMove(ok) ==
    /\ Project.pc.at = "move"
    /\ IF ok
       THEN DumpReturns([Project EXCEPT !.fs = move(@, dumpTarget(Project.pc.path),
                                                    Project.pc.path)], FALSE)
       ELSE DumpReturns(Project, TRUE)

\* no Appliance is built yet
NoAppliance == [built |-> FALSE]

-----------------------------------------------------------------------------
(* Appliance: gns3/appliance_manager.py.  The caller's data map and the map  *)
(* the Appliance keeps are two objects of a small heap, "caller" and "own".  *)

DataKeys == {"appliance_id", "linked_base", "linked_clone", "image", "node_type"}
DataValues(k) ==
    CASE k \in {"linked_base", "linked_clone"} -> {"True", "False"}
      [] k = "node_type" -> {"iou", "qemu"}
      [] k = "image" -> {"i86bi.bin"}
      [] OTHER -> {"A1B2"}
\* the data maps an Appliance is built from: any of the keys may be missing
DataMaps ==
    UNION { {d \in [K -> UNION {DataValues(k) : k \in DataKeys}] :
                \A k \in K : d[k] \in DataValues(k)} : K \in SUBSET DataKeys }

\* the appliance_id argument: None, a uuid.UUID object, a string
ApplianceIds == {None, "UUID(a1b2)", "vpcs"}
\* self._id: str(uuid.uuid4()), str(appliance_id) of a UUID object, or the string given
applianceId(appliance_id) ==
    CASE appliance_id = None -> "uuid4"
      [] appliance_id = "UUID(a1b2)" -> "a1b2"
      [] OTHER -> appliance_id

DelKey(d, key) == [k \in DOMAIN d \ {key} |-> d[k]]
SetKey(d, key, val) == [k \in DOMAIN d \cup {key} |-> IF k = key THEN val ELSE d[k]]

\* self._data = data (mutation: no copy is made)
dataAliased(heap) == [ref |-> "caller", heap |-> heap]
\* self._data = data.copy()
dataCopy(heap) == [ref |-> "own", heap |-> [heap EXCEPT !.own = heap.caller]]

\* Appliance.__init__(appliance_id, data, builtin)
Appliance__init__(appliance_id, data, builtin) ==
    LET c == dataCopy([caller |-> data, own |-> <<>>])
        own == c.ref
        h1 == IF "appliance_id" \in DOMAIN c.heap[own]
              THEN [c.heap EXCEPT ![own] = DelKey(@, "appliance_id")] ELSE c.heap
        h2 == IF "linked_base" \in DOMAIN h1[own]
              THEN LET linked_base == h1[own].linked_base
                       popped == [h1 EXCEPT ![own] = DelKey(@, "linked_base")]
                   IN  IF "linked_clone" \notin DOMAIN popped[own]
                       THEN [popped EXCEPT ![own] = SetKey(@, "linked_clone", linked_base)]
                       ELSE popped
              ELSE h1
    IN  \* data["node_type"] is read from the argument
        IF "node_type" \notin DOMAIN h2.caller
        THEN [built |-> FALSE, raised |-> "KeyError", input |-> data, caller |-> h2.caller]
        ELSE LET h3 == IF h2.caller.node_type = "iou" /\ "image" \in DOMAIN h2.caller
                       THEN [h2 EXCEPT ![own] = DelKey(@, "image")] ELSE h2
             IN  [built |-> TRUE, raised |-> None, input |-> data, caller |-> h3.caller,
                  _id |-> applianceId(appliance_id), _data |-> h3[own],
                  _builtin |-> builtin]

\* a caller builds an Appliance from the data map it holds
NewAppliance(appliance_id, builtin) ==
    /\ "input" \notin DOMAIN Appliance
    /\ Appliance' = Appliance__init__(appliance_id, Appliance.data, builtin)
    /\ last' = [op |-> "Appliance", appliance_id |-> appliance_id]
    /\ UNCHANGED <<_http_client, ctrlVars, queries, timers, reported>>
    /\ UNCHANGED <<staticVars, projVars, linkVars, Project, Node>>

-----------------------------------------------------------------------------
(* Node: gns3/node.py.  A port of the node is an object: Node._ports is the  *)
(* list of the port objects, each with its identity (oid), its class and    *)
(* the fields the node and the link code set on it.                         *)

\* an entry of the "ports" list of a server answer
PortEntry(name, short_name, adapter_number, port_number, link_type) ==
    [name |-> name, short_name |-> short_name, adapter_number |-> adapter_number,
     port_number |-> port_number, link_type |-> link_type,
     data_link_types |-> IF link_type = "serial" THEN {"HDLC"} ELSE {"Ethernet"}]

PortEntries ==
    { PortEntry("Ethernet0", "e0", 0, 0, "ethernet"),
      PortEntry("Ethernet0", "e0/0", 0, 0, "serial"),
      PortEntry("Serial0", "s0", 1, 0, "serial") }

\* the "ports" lists: every list of at most MaxPorts entries
PortLists == UNION {[1..n -> PortEntries] : n \in 0..MaxPorts}

\* SerialPort(name) and EthernetPort(name): a new, free port object
NewPort(oid, class, name) ==
    [oid |-> oid, class |-> class, name |-> name, short_name |-> None,
     adapter_number |-> 0, port_number |-> 0, data_link_types |-> {}, status |-> None,
     link |-> NoLink]

Oids(ps) == {ps[i].oid : i \in DOMAIN ps}
\* the identity of a newly built object: that of no object still referenced
FreshOid(used) == CHOOSE n \in 1..(Cardinality(used) + 1) : n \notin used

\* the first port of old_ports whose adapter number, port number and name are all
\* three those of the entry, 0 when there is none (mutation: only the port number is
\* compared)
matchOldByPortNumber(old_ports, port) ==
    LET hits == {i \in DOMAIN old_ports : old_ports[i].port_number = port.port_number}
    IN  IF hits = {} THEN 0 ELSE CHOOSE i \in hits : \A j \in hits : i <= j
matchOld(old_ports, port) ==
    LET hits == {i \in DOMAIN old_ports :
                    /\ old_ports[i].adapter_number = port.adapter_number
                    /\ old_ports[i].port_number = port.port_number
                    /\ old_ports[i].name = port.name}
    IN  IF hits = {} THEN 0 ELSE CHOOSE i \in hits : \A j \in hits : i <= j

\* list.remove of the element at index i
RemoveAt(ps, i) == [j \in 1..(Len(ps) - 1) |-> IF j < i THEN ps[j] ELSE ps[j + 1]]

\* the loop of Node._updatePorts over the entries from index i on
RECURSIVE updatePortsLoop(_, _, _, _, _, _)
updatePortsLoop(_ports, old_ports, entries, i, status, held) ==
    IF i > Len(entries) THEN _ports
    ELSE LET port == entries[i]
             m == matchOld(old_ports, port)
             new_port == IF m # 0 THEN old_ports[m]
                         ELSE IF port.link_type = "serial"
                         THEN NewPort(FreshOid(held), "SerialPort", port.name)
                         ELSE NewPort(FreshOid(held), "EthernetPort", port.name)
             set == [new_port EXCEPT !.short_name = port.short_name,
                                     !.adapter_number = port.adapter_number,
                                     !.port_number = port.port_number,
                                     !.data_link_types = port.data_link_types,
                                     !.status = status]
         IN  updatePortsLoop(Append(_ports, set),
                             IF m # 0 THEN RemoveAt(old_ports, m) ELSE old_ports,
                             entries, i + 1, status, held \cup {set.oid})

\* Node._updatePorts(ports)
updatePorts(N, entries) ==
    [N EXCEPT !._settings = SetKey(@, "ports", entries),
              !._ports = updatePortsLoop(<<>>, N._ports, entries, 1, N.status, Oids(N._ports))]

\* Node.__init__: the minimum base settings; BaseNode's fields start as stopped, not
\* initialized, without ports; _loading is what the constructor's caller set
NewNode(loading) ==
    [_node_id |-> "uuid4",
     _settings |-> [name |-> Some(""), x |-> Null, y |-> Null, z |-> Some(1),
                    label |-> Some("text")],
     _command_line |-> None, _node_directory |-> None,
     _ports |-> <<>>, status |-> "stopped", initialized |-> FALSE, _loading |-> loading,
     in_module |-> FALSE]

\* the server answers a node is given
NodeAnswers ==
    { [ports |-> <<PortEntry("Ethernet0", "e0", 0, 0, "ethernet"),
                   PortEntry("Serial0", "s0", 1, 0, "serial")>>],
      [ports |-> <<PortEntry("Serial0", "s0", 1, 0, "serial")>>, status |-> "stopped"],
      [node_id |-> "n1", name |-> Some("R1"), status |-> "started", x |-> Some(10),
       properties |-> [z |-> Some(2), ram |-> Some(128)]],
      [status |-> "suspended", command_line |-> "qemu", node_directory |-> "/tmp/n1"] }
NodeErrors == { [message |-> "boom"] }

\* the keys _parseResponse copies into the settings of every node
CommonKeys == {"x", "y", "z", "symbol", "label", "console_host", "console", "console_type"}

\* Node._parseResponse(result): the node afterwards and the (modified) result returned
nodeParseResponse(N, result) ==
    LET N1 == IF "node_id" \in DOMAIN result THEN [N EXCEPT !._node_id = result.node_id]
              ELSE N
        N2 == IF "name" \in DOMAIN result THEN [N1 EXCEPT !._settings.name = result.name]
              ELSE N1
        N3 == IF "command_line" \in DOMAIN result
              THEN [N2 EXCEPT !._command_line = result.command_line] ELSE N2
        N4 == IF "node_directory" \in DOMAIN result
              THEN [N3 EXCEPT !._node_directory = result.node_directory] ELSE N3
        N5 == IF "status" \in DOMAIN result
                 /\ result.status \in {"started", "stopped", "suspended"}
              THEN [N4 EXCEPT !.status = result.status] ELSE N4
        N6 == IF "ports" \in DOMAIN result THEN updatePorts(N5, result.ports) ELSE N5
        properties == Get(result, "properties", <<>>)
        st == N6._settings
        N7 == [N6 EXCEPT !._settings =
                 [k \in DOMAIN st |-> IF k \in DOMAIN properties /\ st[k] # properties[k]
                                      THEN properties[k] ELSE st[k]]]
        \* result.update(result["properties"]); del result["properties"]
        result1 == IF "properties" \in DOMAIN result
                   THEN [k \in (DOMAIN result \cup DOMAIN properties) \ {"properties"} |->
                           IF k \in DOMAIN properties THEN properties[k] ELSE result[k]]
                   ELSE result
        copied == CommonKeys \cap DOMAIN result1
        st7 == N7._settings
    IN  [node |-> [N7 EXCEPT !._settings = [k \in DOMAIN st7 \cup copied |->
                                              IF k \in copied THEN result1[k] ELSE st7[k]]],
         result |-> result1]

\* Node.createNodeCallback(result, error): the node afterwards, the value returned and
\* the signals emitted and module calls made, in order.  The function ends without a
\* return statement when there is no error.
createNodeCallback(N, result, error) ==
    IF error
    THEN [node |-> [N EXCEPT !.in_module = FALSE], ret |-> "False",
          effects |-> << <<"server_error_signal", result.message>>, <<"deleted_signal">>,
                         <<"removeNode">> >>]
    ELSE LET parsed == nodeParseResponse(N, result).node
         IN  IF parsed._loading
             THEN [node |-> parsed, ret |-> "None", effects |-> << <<"loaded_signal">> >>]
             ELSE [node |-> [parsed EXCEPT !.initialized = TRUE, !.in_module = TRUE],
                   ret |-> "None",
                   effects |-> << <<"created_signal">>, <<"addNode">> >>]

NodeDoes(N, l) ==
    /\ Node' = N
    /\ last' = l
    /\ UNCHANGED <<_http_client, ctrlVars, queries, timers, reported>>
    /\ UNCHANGED <<staticVars, projVars, linkVars, Project, Appliance>>

\* the HTTP client calls Node.createNodeCallback with the answer to a create request
CreateNodeCallback(result, error) ==
    /\ error <=> result \in NodeErrors
    /\ LET r == createNodeCallback(Node, result, error)
       IN  NodeDoes(r.node, [op |-> "createNodeCallback", error |-> error, result |-> result,
                             ret |-> r.ret, effects |-> r.effects,
                             pre |-> [_node_id |-> Node._node_id,
                                      _settings |-> Node._settings]])

\* Node._updatePorts(ports)
UpdatePorts(entries) ==
    NodeDoes(updatePorts(Node, entries), [op |-> "_updatePorts"])

\* Link._linkCreatedCallback binds port i of the node, a free port: setLinkId, setLink
AttachLink(i, l) ==
    /\ i \in DOMAIN Node._ports
    /\ Node._ports[i].link = NoLink
    /\ NodeDoes([Node EXCEPT !._ports[i].link = l], [op |-> "setLink"])

-----------------------------------------------------------------------------
(* Initial state: Controller.__init__, an empty temporary cache directory *)

InitController ==
    /\ _connected = TRUE
    /\ _connecting = FALSE
    /\ _cache_directory = "tmpdir"
    /\ _http_client = FALSE
    /\ _first_error = TRUE
    /\ _error_dialog = FALSE
    /\ _display_error = TRUE
    /\ _projects = <<>>
    /\ _static_asset_download_queue = <<>>
    /\ queries = EmptyBag
    /\ timers = EmptyBag
    /\ files = {}
    /\ links = <<>>
    /\ ports = [port \in Ports |-> FreePort]
    /\ node_links = [n \in Nodes |-> {}]
    /\ instance_count = 1
    /\ created = <<>>
    /\ calls = <<>>
    /\ reg = <<>>
    /\ resub = {}
    /\ resubNoClient = {}
    /\ dropped = {}
    /\ reported = "none"
    /\ last = [op |-> "__init__"]

InitObjects ==
    /\ Project = NewProject(NoFile)
    /\ Node = NewNode(FALSE)
    /\ Appliance = NoAppliance

\* no project directory on disk
Init == InitController /\ disk = {} /\ InitObjects

\* any of the project files on disk
InitDisk == InitController /\ disk \in SUBSET DiskFiles /\ InitObjects

\* a Project in a directory that holds a topology file or none
InitProject ==
    /\ InitController /\ disk = {}
    /\ Project \in {NewProject(f) : f \in TopologyFiles \cup {NoFile}}
    /\ Node = NewNode(FALSE)
    /\ Appliance = NoAppliance

NextStatic ==
    \/ \E c \in BOOLEAN : SetHttpClient(c)
    \/ \E url \in Urls, fallback \in Urls \cup {NoFallback} : GetStatic(url, fallback)
    \/ \E q \in BagToSet(queries), outcome \in {"error", "OSError", "ok"} :
          GetStaticResponse(q, outcome)

SpecStatic == Init /\ [][NextStatic]_vars

NextConnection ==
    \/ \E c \in BOOLEAN : SetHttpClient(c)
    \/ \E val \in BOOLEAN : SetDisplayError(val)
    \/ HttpClientDisconnectedSlot
    \/ HttpClientConnectedSlot
    \/ \E q \in BagToSet(queries), error \in BOOLEAN, hasMessage \in BOOLEAN :
          VersionGetSlot(q, error, hasMessage)
    \/ \E t \in BagToSet(timers) : TimerFires(t)

SpecConnection == InitDisk /\ [][NextConnection]_vars

NextProjects ==
    \/ \E project_id \in ProjectIds, name \in ProjectNames, kwargs \in Kwargs :
          AddProject(project_id, name, kwargs)
    \/ \E project_id \in ProjectIds, name \in ProjectNames :
          CreateProject(name, project_id, <<"somewhere">>)
    \/ \E project_id \in ProjectIds : DeleteProject(project_id)
    \/ RefreshProjectList

SpecProjects == InitDisk /\ [][NextProjects]_vars

NextLinks ==
    \/ \E sp \in Ports, dp \in Ports, link_id \in {NoId, <<"given">>},
          link_data \in Results \ {[message |-> "x"]} :
          NewLink(sp, dp, link_id, link_data)
    \/ \E l \in DOMAIN links, result \in Results, error \in BOOLEAN :
          UpdateLinkCallback(l, result, error)
    \/ \E l \in DOMAIN links : ToggleSuspend(l)
    \/ \E l \in DOMAIN links, filters \in {{}, {"delay"}} : SetFilters(l, filters)
    \/ \E l \in DOMAIN links : DeleteLink(l)

SpecLinks == Init /\ [][NextLinks]_vars

\* links are created and deleted, nothing else
NextPairing ==
    \/ \E sp \in Ports, dp \in Ports :
          NewLinkUpTo(MaxPairLinks, sp, dp, NoId, [filters |-> {}, suspend |-> FALSE])
    \/ \E l \in DOMAIN links : DeleteLink(l)
    \/ \E l \in DOMAIN links : LinkDeletedCallbackError(l)

SpecPairing == Init /\ [][NextPairing]_vars

\* a caller holding any of the data maps
InitAppliance ==
    /\ InitController /\ disk = {}
    /\ Project = NewProject(NoFile)
    /\ Node = NewNode(FALSE)
    /\ Appliance \in {[built |-> FALSE, data |-> d] : d \in DataMaps}

NextAppliance ==
    \E appliance_id \in ApplianceIds, builtin \in BOOLEAN : NewAppliance(appliance_id, builtin)

SpecAppliance == InitAppliance /\ [][NextAppliance]_vars

\* a Node built while a project is loaded, or outside of that
InitNode ==
    /\ InitController /\ disk = {}
    /\ Project = NewProject(NoFile)
    /\ Node \in {NewNode(loading) : loading \in BOOLEAN}
    /\ Appliance = NoAppliance

NextNode ==
    \/ \E result \in NodeAnswers \cup NodeErrors, error \in BOOLEAN :
          CreateNodeCallback(result, error)
    \/ AttachLink(1, 1)

SpecNode == InitNode /\ [][NextNode]_vars

NextPorts ==
    \/ \E entries \in PortLists : UpdatePorts(entries)
    \/ AttachLink(1, 1)

SpecPorts == Init /\ [][NextPorts]_vars

NextProject ==
    \/ SetFilesDir("dir")
    \/ SetFilename("p.gns3")
    \/ \E key \in MetaKeys : \E val \in MetaValues(key) : SetMeta(key, val)
    \/ Open
    \/ Dump
    \/ \E ok \in BOOLEAN : DumpMakedirs(ok)
    \/ \E ok \in BOOLEAN : DumpOpenTmp(ok)
    \/ \E ok \in BOOLEAN : DumpWrite(ok)
    \/ \E ok \in BOOLEAN : DumpMove(ok)

SpecProject == InitProject /\ [][NextProject]_vars

-----------------------------------------------------------------------------
(* Properties of the static-asset cache *)

CallsOf(cb) == {i \in DOMAIN calls : calls[i].callback = cb}
IsPrefix(a, b) == Len(a) <= Len(b) /\ SubSeq(b, 1, Len(a)) = a
FallbackPath(cb) == getStaticCachedPath(reg[cb].fallback)
LastEntry == Entry(last.callback, last.fallback)

C2_CalledOnceInOrder ==
    /\ \A cb \in DOMAIN reg : Cardinality(CallsOf(cb)) <= 1
    /\ \A cb \in DOMAIN reg :
          (reg[cb].client /\ cb \notin resub /\ cb \notin dropped /\ reg[cb].path \in files)
             => \E i \in DOMAIN calls : calls[i] = Call(cb, reg[cb].path)
    /\ last.op \in {"getStatic", "_getStaticCallback"} =>
          \A p \in DOMAIN last.pre.queue \cap DOMAIN _static_asset_download_queue :
             IsPrefix(last.pre.queue[p], _static_asset_download_queue[p])
    /\ (last.op = "_getStaticCallback" /\ last.outcome = "ok"
          /\ last.path \in DOMAIN last.pre.queue) =>
          /\ Len(calls) = Len(last.pre.calls) + Len(last.pre.queue[last.path])
          /\ \A i \in DOMAIN last.pre.queue[last.path] :
                calls[Len(last.pre.calls) + i] =
                   Call(last.pre.queue[last.path][i].callback, last.path)

\* a download with two queued callbacks has succeeded
C2_Witness ==
    /\ last.op = "_getStaticCallback"
    /\ last.outcome = "ok"
    /\ last.path \in DOMAIN last.pre.queue
    /\ Len(last.pre.queue[last.path]) = 2
    /\ Len(calls) = 2

\* what C3 says whatever the HTTP client: on a failed download every queued callback
\* with a fallback is re-submitted and every other one is dropped, the failed path
\* leaves the queue, a re-submitted callback is queued under its fallback's path with
\* no further fallback, is called with no other path than that one, and a dropped
\* callback is never called
C3_Resubmission ==
    /\ \A p \in DOMAIN _static_asset_download_queue :
          \A i \in DOMAIN _static_asset_download_queue[p] :
             LET e == _static_asset_download_queue[p][i] IN
             e.callback \in resub => e.fallback = NoFallback /\ p = FallbackPath(e.callback)
    /\ \A cb \in dropped : CallsOf(cb) = {}
    /\ \A cb \in resub : \A i \in CallsOf(cb) : calls[i].path = FallbackPath(cb)
    /\ (last.op = "_getStaticCallback" /\ last.outcome = "error") =>
          /\ last.path \notin DOMAIN _static_asset_download_queue
          /\ last.path \in DOMAIN last.pre.queue =>
                \A i \in DOMAIN last.pre.queue[last.path] :
                   LET e == last.pre.queue[last.path][i] IN
                   IF e.fallback # NoFallback THEN e.callback \in resub
                   ELSE e.callback \in dropped

C4_CachedNoQuery ==
    /\ \A cb \in DOMAIN reg : reg[cb].path = getStaticCachedPath(reg[cb].url)
    /\ (last.op = "getStatic" /\ last.path \in last.pre.files) =>
          /\ queries = last.pre.queries
          /\ _static_asset_download_queue = last.pre.queue

\* C4 (as amended): C4_CachedNoQuery, and a getStatic(url, callback) made while an HTTP
\* client is set, for a URL whose file is in the cache, calls callback with the cached
\* path before it returns.
C4_CachedPath ==
    /\ C4_CachedNoQuery
    /\ (last.op = "getStatic" /\ last.path \in last.pre.files /\ last.pre.client) =>
          calls = Append(last.pre.calls, Call(last.callback, last.path))

\* C4 (as claimed): every getStatic(url, callback) for a URL whose file is in the cache
\* calls callback with the cached path before it returns.
C4_AsClaimed ==
    /\ C4_CachedNoQuery
    /\ (last.op = "getStatic" /\ last.path \in last.pre.files) =>
          calls = Append(last.pre.calls, Call(last.callback, last.path))

\* a getStatic call has found the file of its URL in the cache and called its callback
C4_Witness ==
    /\ last.op = "getStatic"
    /\ last.pre.client
    /\ last.path \in last.pre.files
    /\ calls # <<>>
    /\ calls[Len(calls)] = Call(last.callback, last.path)

-----------------------------------------------------------------------------
(* Properties of the connection slots *)

\* C5: a failed answer to GET /version handled by _versionGetSlot adds exactly one timer,
\* of 5000 ms, to the pending timers, on a first failure and on any later one alike, and
\* a successful answer adds none; every pending timer has that delay and, when it fires
\* with an HTTP client set, issues exactly one GET /version answered by _versionGetSlot.
C5_FixedReconnectTimer ==
    /\ \A t \in BagToSet(timers) :
          t.delay = 5000 /\ t.query.method = "GET" /\ t.query.path = <<"/version">>
             /\ t.query.callback = <<"_versionGetSlot">>
    /\ (last.op = "_versionGetSlot" /\ last.error) =>
          /\ BagCardinality(timers) = BagCardinality(last.pre.timers) + 1
          /\ \E t \in BagToSet(timers) : timers = last.pre.timers (+) One(t)
    /\ (last.op = "_versionGetSlot" /\ ~last.error) => timers = last.pre.timers
    /\ last.op = "timer" =>
          queries = IF last.pre.client THEN last.pre.queries (+) One(last.query)
                    ELSE last.pre.queries

\* a GET /version has failed again after an earlier failure, with a timer still pending
C5_Witness ==
    /\ last.op = "_versionGetSlot"
    /\ last.error
    /\ ~last.pre.first_error
    /\ BagCardinality(timers) = 2

\* C6 (as claimed): connected() is False from the HTTP client's report of a disconnection
\* until its next report of a connection, and True after a connection is reported.
C6_AsClaimed ==
    /\ reported = "disconnected" => ~_connected
    /\ reported = "connected" => _connected

\* C7 (as claimed): a disconnection of a connected controller emits disconnected_signal
\* exactly once, and the connection reported after a disconnection emits connected_signal
\* exactly once and refreshes the project list.
C7_AsClaimed ==
    /\ (last.op = "_httpClientDisconnectedSlot" /\ last.pre.connected) =>
          last.signals = <<"disconnected_signal">>
    /\ (last.op = "_httpClientConnectedSlot" /\ last.pre.reported = "disconnected") =>
          /\ Cardinality({i \in DOMAIN last.signals : last.signals[i] = "connected_signal"}) = 1
          /\ last.refreshed

\* C8 (as claimed): connecting() is False once a GET /version has succeeded or the HTTP
\* client has reported the connection.
C8_AsClaimed ==
    /\ (last.op = "_versionGetSlot" /\ ~last.error) => ~_connecting
    /\ last.op = "_httpClientConnectedSlot" => ~_connecting

-----------------------------------------------------------------------------
(* Properties of the project map *)

Unknown == last.args.project_id \notin DOMAIN last.pre.projects

\* C10 (as claimed): add_project, and create_project with a non-null id, return the
\* stored project and leave the map as it was when the id is in the map, and otherwise
\* add exactly one entry, under that id, and return it.
C10_AsClaimed ==
    (last.op = "add_project" \/ (last.op = "create_project" /\ last.args.project_id # None)) =>
       IF Unknown
       THEN /\ DOMAIN _projects = DOMAIN last.pre.projects \cup {last.args.project_id}
            /\ \A k \in DOMAIN last.pre.projects : _projects[k] = last.pre.projects[k]
            /\ last.ret = <<_projects[last.args.project_id]>>
       ELSE /\ _projects = last.pre.projects
            /\ last.ret = <<last.pre.projects[last.args.project_id]>>

-----------------------------------------------------------------------------
(* Properties of links *)

\* C9: every Link, live or deleted, holds the source node/port and destination node/port
\* it was constructed with, whatever answers were parsed, suspend toggles, filters set or
\* deletions have happened since; _prepareParams and __json__ each list exactly two node
\* entries, the source's first and the destination's second.
C9_TwoEndpoints ==
    /\ DOMAIN links = DOMAIN created
    /\ \A l \in DOMAIN links : Endpoints(links[l]) = created[l]
    /\ \A l \in DOMAIN links :
          LET L == links[l]
              P == prepareParams(L).nodes
              J == json(L).nodes
          IN  /\ Len(P) = 2 /\ Len(J) = 2
              /\ P[1].node_id = node_id(created[l][1]) /\ J[1].node_id = id(created[l][1])
              /\ P[2].node_id = node_id(created[l][3]) /\ J[2].node_id = id(created[l][3])
              /\ \A k \in {1, 2} :
                    /\ P[k].adapter_number = adapterNumber(created[l][2 * k])
                    /\ P[k].port_number = portNumber(created[l][2 * k])
                    /\ J[k].adapter_number = adapterNumber(created[l][2 * k])
                    /\ J[k].port_number = portNumber(created[l][2 * k])

\* a link that parsed a three-entry "nodes" list from the server, with its suspend flag
\* set and a filter, has been deleted
C9_Witness ==
    /\ last.op = "deleteLink"
    /\ Len(links[last.link].nodes) = 3
    /\ links[last.link].suspend
    /\ links[last.link].filters # {}
    /\ last.link \notin Live

-----------------------------------------------------------------------------
(* Properties of the Project *)

TopologyFile == Project.fs["dir/p.gns3"]
OpenReadTheFile == last.op = "open" /\ last.raised \in {None, "AttributeError"}

\* C11: once open() has returned, the accessor of every key that is present and not
\* null in the topology file returns the value the file holds for it.
C11_AsClaimed ==
    (last.op = "open" /\ last.raised = None) =>
        \A k \in MetaKeys :
            Get(TopologyFile.data.meta, k, Null) # Null =>
                accessor(Project.attrs, k) = TopologyFile.data.meta[k]

Rank(c) == CASE c[1] = "createNode" -> 1 [] c[1] = "createLink" -> 2 [] OTHER -> 3
ArgsOf(kind) ==
    LET cs == SelectSeq(last.tcalls, LAMBDA c : c[1] = kind)
    IN  [i \in DOMAIN cs |-> cs[i][2]]

\* C18: an open() that read the topology file creates every node of the file before any
\* link and every link before any drawing, each list in file order; the link entries
\* that have a link_id are each passed to createLink once, the others never.
C18_AsClaimed ==
    OpenReadTheFile =>
        LET topology == TopologyFile.data.topology
        IN  /\ \A i, j \in DOMAIN last.tcalls :
                  i < j => Rank(last.tcalls[i]) <= Rank(last.tcalls[j])
            /\ ArgsOf("createNode") = Get(topology, "nodes", <<>>)
            /\ ArgsOf("createDrawing") = Get(topology, "drawings", <<>>)
            /\ ArgsOf("createLink") =
                  SelectSeq(Get(topology, "links", <<>>), LAMBDA e : "link_id" \in DOMAIN e)

-----------------------------------------------------------------------------
(* Properties of the Appliance *)

\* C12: the data of an Appliance has neither linked_base nor appliance_id; its
\* linked_clone is the input's linked_clone when the input has one, else the input's
\* linked_base, and there is none when the input has neither; image is gone when the
\* node_type is iou; the caller's map is what it was.
C12_LegacyFields ==
    "input" \in DOMAIN Appliance =>
        /\ Appliance.caller = Appliance.input
        /\ Appliance.built =>
            LET in == Appliance.input
                _data == Appliance._data
            IN  /\ "linked_base" \notin DOMAIN _data
                /\ "appliance_id" \notin DOMAIN _data
                /\ "linked_clone" \in DOMAIN in => _data.linked_clone = in.linked_clone
                /\ ("linked_clone" \notin DOMAIN in /\ "linked_base" \in DOMAIN in) =>
                       _data.linked_clone = in.linked_base
                /\ ("linked_clone" \notin DOMAIN in /\ "linked_base" \notin DOMAIN in) =>
                       "linked_clone" \notin DOMAIN _data
                /\ in.node_type = "iou" => "image" \notin DOMAIN _data
                /\ \A k \in DOMAIN in \ {"linked_base", "appliance_id", "linked_clone", "image"} :
                       k \in DOMAIN _data /\ _data[k] = in[k]

\* an iou appliance built from a map with all the legacy keys and an image
C12_Witness ==
    /\ Appliance.built
    /\ {"appliance_id", "linked_base", "image"} \subseteq DOMAIN Appliance.input
    /\ "linked_clone" \notin DOMAIN Appliance.input
    /\ Appliance.input.node_type = "iou"
    /\ Appliance._data.linked_clone = Appliance.input.linked_base

-----------------------------------------------------------------------------
(* Properties of the Node *)

SameNumbersAndName(a, b) ==
    /\ a.adapter_number = b.adapter_number
    /\ a.port_number = b.port_number
    /\ a.name = b.name

\* the port list new is what the claim says _updatePorts(entries) makes of the list old
UpdatedAsClaimed(old, entries, new) ==
    LET \* an existing port matching entry i is left over by the entries before it
        matched(i) ==
            Cardinality({k \in DOMAIN old : SameNumbersAndName(old[k], entries[i])}) >
            Cardinality({j \in 1..(i - 1) : SameNumbersAndName(entries[j], entries[i])})
    IN  /\ Len(new) = Len(entries)
        /\ \A i \in DOMAIN entries :
              /\ SameNumbersAndName(new[i], entries[i])
              /\ IF matched(i)
                 THEN \E k \in DOMAIN old :
                         /\ new[i].oid = old[k].oid
                         /\ SameNumbersAndName(old[k], entries[i])
                         /\ new[i].link = old[k].link
                         /\ new[i].class = old[k].class
                 ELSE /\ new[i].oid \notin Oids(old)
                      /\ new[i].link = NoLink
                      /\ new[i].class = IF entries[i].link_type = "serial"
                                        THEN "SerialPort" ELSE "EthernetPort"
        /\ \A i, j \in DOMAIN new : i # j => new[i].oid # new[j].oid

\* C17: _updatePorts(ports) leaves one port per entry, in the order of the entries; an
\* entry whose adapter number, port number and name are those of an existing port not
\* yet taken by an earlier entry gets that port object, with its link; any other entry
\* gets a new free SerialPort (link_type serial) or EthernetPort; no port object is in
\* the list twice, and an existing port that no entry matches is not in the list.
C17_PortsUpdated ==
    [][last'.op = "_updatePorts" =>
          UpdatedAsClaimed(Node._ports, Node'._settings.ports, Node'._ports)]_vars

\* after an _updatePorts the list holds a port that kept its link next to a new serial port
C17_Witness ==
    /\ last.op = "_updatePorts"
    /\ \E i, j \in DOMAIN Node._ports :
          /\ Node._ports[i].link # NoLink
          /\ Node._ports[j].link = NoLink /\ Node._ports[j].class = "SerialPort"
          /\ Node._ports[i].oid < Node._ports[j].oid

\* C13: createNodeCallback with error emits server_error_signal, then deleted_signal,
\* removes the node from its module, leaves node id and settings as they were and
\* returns False; without error it parses the answer, then emits loaded_signal when
\* loading, else sets the node initialized, emits created_signal and adds the node to
\* the module; and it returns True.
C13_AsClaimed ==
    last.op = "createNodeCallback" =>
        IF last.error
        THEN /\ last.effects = << <<"server_error_signal", last.result.message>>,
                                  <<"deleted_signal">>, <<"removeNode">> >>
             /\ ~Node.in_module
             /\ Node._node_id = last.pre._node_id
             /\ Node._settings = last.pre._settings
             /\ last.ret = "False"
        ELSE /\ "node_id" \in DOMAIN last.result => Node._node_id = last.result.node_id
             /\ IF Node._loading
                THEN last.effects = << <<"loaded_signal">> >>
                ELSE /\ last.effects = << <<"created_signal">>, <<"addNode">> >>
                     /\ Node.initialized /\ Node.in_module
             /\ last.ret = "True"

-----------------------------------------------------------------------------
(* Properties of link creation and deletion *)

Deleted == DOMAIN links \ Live
PortsOf(l) == {links[l].source_port, links[l].destination_port}
Bound(l, port, dnode, dport) ==
    ports[port] = [link_id |-> l, link |-> l, destination_node |-> dnode,
                   destination_port |-> dport]

\* both ports of every live link reference the link and each other's end, and both
\* nodes list the link
LivePaired ==
    \A l \in Live :
        LET L == links[l]
        IN  /\ Bound(l, L.source_port, L.destination_node, L.destination_port)
            /\ Bound(l, L.destination_port, L.source_node, L.source_port)
            /\ l \in node_links[L.source_node] /\ l \in node_links[L.destination_node]

C16_DeleteOrder ==
    /\ last.op = "deleteLink" =>
          LET l == last.link
              L == links[l]
          IN  /\ last.signals = << <<"updated_signal", L.source_node>>,
                                   <<"updated_signal", L.destination_node>>,
                                   <<"delete_link_signal", l>> >>
              /\ last.seen[1].ports[L.source_port] = FreePort
              /\ l \notin last.seen[1].node_links[L.source_node]
              /\ last.seen[1].ports[L.destination_port].link = l
              /\ l \in last.seen[1].node_links[L.destination_node]
              /\ last.seen[2].ports[L.destination_port] = FreePort
              /\ l \notin last.seen[2].node_links[L.destination_node]
              /\ last.seen[3] = last.seen[2]
              /\ last.seen[3] = [ports |-> ports, node_links |-> node_links]
    /\ last.op = "_linkDeletedCallback" =>
          /\ last.signals = <<>>
          /\ last.pre = [ports |-> ports, node_links |-> node_links]
          /\ last.link \in Live

\* a link was deleted while another link was live
C16_Witness ==
    /\ last.op = "deleteLink"
    /\ Len(last.signals) = 3
    /\ Live # {}

====
